---- MODULE Spec2Model ----
(***************************************************************************)
(* Bank account ledger: the account file, the transaction journal and the  *)
(* transfer operation of bank_full_system.cpp, with the BankAccount value  *)
(* operations and the loaders of both bank_full_system.cpp and bank.cpp.   *)
(*                                                                         *)
(* Text is a sequence of one-character strings.  A file is a sequence of   *)
(* lines (what getline yields), each line a text without its '\n'.         *)
(*                                                                         *)
(* A double is an integer count of thirds of 10^-6: to_string(double)      *)
(* prints "%f", six decimals, so the model keeps one step of resolution    *)
(* below what the files can hold; with thirds no value lies halfway        *)
(* between two printable ones, and rounding is to the nearest.  Sums and   *)
(* differences of such values are exact in a double for the magnitudes     *)
(* the model reaches.                                                      *)
(***************************************************************************)
EXTENDS Integers, Sequences, FiniteSets, TLC

VARIABLES
    accountsFile,      \* [exists, lines]: accounts.txt / bankdata.txt
    transactionsFile,  \* [exists, lines]: transactions.txt
    pc,                \* per process: where its transferFunds call stands
    fromAcc,           \* per process: transferFunds argument
    toAcc,             \* per process: transferFunds argument
    amount,            \* per process: transferFunds argument
    list,              \* per process: the local vector<BankAccount>
    result,            \* per process: what the last call gave its caller
    journalLen,        \* per process: journal length when the call began
    account,           \* a BankAccount object in memory: [impl, acct]
    lastOp,            \* the last operation applied to it, and its outcome
    loaded             \* what the last load of accountsFile returned

vars == <<accountsFile, transactionsFile, pc, fromAcc, toAcc, amount, list,
          result, journalLen, account, lastOp, loaded>>

ledgerVars == <<accountsFile, transactionsFile, pc, fromAcc, toAcc, amount,
                list, result, journalLen>>
objectVars == <<account, lastOp>>

(***************************************************************************)
(* Bounds of the model.                                                    *)
(***************************************************************************)
MaxLines == 3
MaxJournal == 2
MaxLineLen == 5
MaxBalance == 2

Procs == {1, 2}
Main == 1

(***************************************************************************)
(* Text: std::string operations used by the program.                       *)
(***************************************************************************)
Digits == <<"0", "1", "2", "3", "4", "5", "6", "7", "8", "9">>

DigitChars == {Digits[d] : d \in 1..10}

DigitValues == [c \in DigitChars |-> (CHOOSE d \in 1..10 : Digits[d] = c) - 1]

IsDigit(c) == c \in DigitChars

DigitValue(c) == DigitValues[c]

RECURSIVE NatText(_)
NatText(n) ==
    IF n < 10 THEN <<Digits[n + 1]>>
    ELSE NatText(n \div 10) \o <<Digits[(n % 10) + 1]>>

\* std::to_string(int): "%d".
to_string_int(n) == IF n < 0 THEN <<"-">> \o NatText(-n) ELSE NatText(n)

\* The value nearest to x (thirds of 10^-6) that has six decimals, in 10^-6.
RoundMicro(x) == (x + 1) \div 3

\* Six digits, zero padded.
SixDigits(n) ==
    <<Digits[((n \div 100000) % 10) + 1], Digits[((n \div 10000) % 10) + 1],
      Digits[((n \div 1000) % 10) + 1], Digits[((n \div 100) % 10) + 1],
      Digits[((n \div 10) % 10) + 1], Digits[(n % 10) + 1]>>

\* std::to_string(double): "%f", six decimals, sign of the value kept.
to_string_double(x) ==
    LET r == RoundMicro(x)
        m == IF r < 0 THEN -r ELSE r
    IN  (IF x < 0 THEN <<"-">> ELSE <<>>)
        \o NatText(m \div 1000000) \o <<".">> \o SixDigits(m % 1000000)

\* std::string::npos; npos + 1 wraps to 0 as size_t does.
npos == -1

\* s.find(c, pos): 0-based index of the first c at or after pos, else npos.
RECURSIVE find(_, _, _)
find(s, c, pos) ==
    IF pos >= Len(s) THEN npos
    ELSE IF s[pos + 1] = c THEN pos
    ELSE find(s, c, pos + 1)

\* s.substr(pos, count) for pos <= size; a count that wrapped around as
\* size_t (negative here) or runs past the end takes the rest.
substr(s, pos, count) ==
    IF count < 0 \/ pos + count > Len(s) THEN SubSeq(s, pos + 1, Len(s))
    ELSE SubSeq(s, pos + 1, pos + count)

\* Index (1-based) of the first character at or after i that is not c.
RECURSIVE SkipChar(_, _, _)
SkipChar(s, c, i) ==
    IF i <= Len(s) /\ s[i] = c THEN SkipChar(s, c, i + 1) ELSE i

\* Index (1-based) of the first character at or after i that is no digit.
RECURSIVE DigitsEnd(_, _)
DigitsEnd(s, i) ==
    IF i <= Len(s) /\ IsDigit(s[i]) THEN DigitsEnd(s, i + 1) ELSE i

\* Value of the digits s[i..j-1]; 0 for none.
RECURSIVE DigitsValue(_, _, _)
DigitsValue(s, i, j) ==
    IF j <= i THEN 0
    ELSE 10 * DigitsValue(s, i, j - 1) + DigitValue(s[j - 1])

RECURSIVE Pow10(_)
Pow10(k) == IF k = 0 THEN 1 ELSE 10 * Pow10(k - 1)

\* Position after leading blanks and an optional sign, and the sign.
NumberStart(s) ==
    LET i == SkipChar(s, " ", 1)
        signed == i <= Len(s) /\ s[i] \in {"+", "-"}
    IN  [at |-> IF signed THEN i + 1 ELSE i,
         neg |-> signed /\ s[i] = "-"]

\* std::stoi: leading blanks, optional sign, decimal digits; what follows
\* the digits is ignored.  No digit: invalid_argument.  Ten digits or more:
\* out_of_range (no text of the model is that long).  Both are reported as
\* ok = FALSE (an exception).
stoi(s) ==
    LET st == NumberStart(s)
        j == DigitsEnd(s, st.at)
        v == DigitsValue(s, st.at, j)
    IN  IF j = st.at \/ j - st.at > 9 THEN [ok |-> FALSE, val |-> 0]
        ELSE [ok |-> TRUE, val |-> IF st.neg THEN -v ELSE v]

\* std::stod on decimal text: leading blanks, optional sign, digits with an
\* optional '.' and more digits; what follows is ignored.  No digit at all:
\* invalid_argument.  The value is in thirds of 10^-6; decimals beyond the
\* sixth are below the model's resolution and are cut.
stod(s) ==
    LET st == NumberStart(s)
        j == DigitsEnd(s, st.at)
        dot == j <= Len(s) /\ s[j] = "."
        k == IF dot THEN DigitsEnd(s, j + 1) ELSE j
        nfrac == IF dot THEN k - (j + 1) ELSE 0
        kept == IF nfrac > 6 THEN 6 ELSE nfrac
        whole == DigitsValue(s, st.at, j)
        frac == IF dot THEN DigitsValue(s, j + 1, j + 1 + kept) ELSE 0
        micro == whole * 1000000 + frac * Pow10(6 - kept)
    IN  IF j = st.at /\ nfrac = 0 THEN [ok |-> FALSE, val |-> 0]
        ELSE [ok |-> TRUE, val |-> IF st.neg THEN -3 * micro ELSE 3 * micro]

(***************************************************************************)
(* BankAccount (bank_full_system.cpp) and its record format.               *)
(***************************************************************************)
BankAccount(n, acc, bal) == [name |-> n, accNumber |-> acc, balance |-> bal]

\* BankAccount::toRecord, without the '\n' that ends the line.
BankAccount_toRecord(a) ==
    a.name \o <<"|">> \o to_string_int(a.accNumber) \o <<"|">>
           \o to_string_double(a.balance)

\* BankAccount::fromRecord; ok = FALSE when stoi or stod throws.
fromRecord(rec) ==
    LET p1 == find(rec, "|", 0)
        p2 == find(rec, "|", p1 + 1)
        n == substr(rec, 0, p1)
        acc == stoi(substr(rec, p1 + 1, p2 - (p1 + 1)))
        bal == stod(substr(rec, p2 + 1, npos))
    IN  IF acc.ok /\ bal.ok
        THEN [ok |-> TRUE, acct |-> BankAccount(n, acc.val, bal.val)]
        ELSE [ok |-> FALSE, acct |-> BankAccount(<<>>, 0, 0)]

\* Mutant of Transaction::toRecord: the two account numbers change places.
Transaction_toRecord_Swapped(f, t, a, note) ==
    to_string_int(t) \o <<"|">> \o to_string_int(f) \o <<"|">>
                    \o to_string_double(a) \o <<"|">> \o note

\* Transaction::toRecord, without the '\n'.
Transaction_toRecord(f, t, a, note) ==
    to_string_int(f) \o <<"|">> \o to_string_int(t) \o <<"|">>
                    \o to_string_double(a) \o <<"|">> \o note

\* The note transferFunds passes: "transfer".
TransferNote == <<"t", "r", "a", "n", "s", "f", "e", "r">>

\* Mutant of updateBalance(double): the amount is assigned, not added.
updateBalance1_Assigns(a, amt) ==
    IF amt < 0 THEN [thrown |-> "InvalidArgument", acct |-> a]
    ELSE [thrown |-> "none", acct |-> [a EXCEPT !.balance = amt]]

\* BankAccount::updateBalance(double): deposit.
updateBalance1(a, amt) ==
    IF amt < 0 THEN [thrown |-> "InvalidArgument", acct |-> a]
    ELSE [thrown |-> "none", acct |-> [a EXCEPT !.balance = @ + amt]]

\* Mutant of updateBalance(double, bool): the flag is read the wrong way
\* round.
updateBalance2_FlagInverted(a, amt, withdraw) ==
    IF amt < 0 THEN [thrown |-> "InvalidArgument", acct |-> a]
    ELSE IF ~withdraw
    THEN IF a.balance < amt
         THEN [thrown |-> "InsufficientFunds", acct |-> a]
         ELSE [thrown |-> "none", acct |-> [a EXCEPT !.balance = @ - amt]]
    ELSE [thrown |-> "none", acct |-> [a EXCEPT !.balance = @ + amt]]

\* BankAccount::updateBalance(double, bool).
updateBalance2(a, amt, withdraw) ==
    IF amt < 0 THEN [thrown |-> "InvalidArgument", acct |-> a]
    ELSE IF withdraw
    THEN IF a.balance < amt
         THEN [thrown |-> "InsufficientFunds", acct |-> a]
         ELSE [thrown |-> "none", acct |-> [a EXCEPT !.balance = @ - amt]]
    ELSE [thrown |-> "none", acct |-> [a EXCEPT !.balance = @ + amt]]

(***************************************************************************)
(* AccountManager (bank_full_system.cpp): the files.                       *)
(***************************************************************************)
NoFile == [exists |-> FALSE, lines |-> <<>>]

\* ofstream(path, ios::app) << text: the line is added at the end.
AppendLine(f, line) == [exists |-> TRUE, lines |-> Append(f.lines, line)]

RECURSIVE RecordsOf(_)
RecordsOf(accounts) ==
    IF accounts = <<>> THEN <<>>
    ELSE <<BankAccount_toRecord(Head(accounts))>> \o RecordsOf(Tail(accounts))

\* Mutant of saveAllAccounts: the file is opened with ios::app, as
\* createAccount opens it, and the records are added at its end.
saveAllAccounts_Appends(accounts) ==
    [exists |-> TRUE, lines |-> accountsFile.lines \o RecordsOf(accounts)]

\* AccountManager::saveAllAccounts: the file as the call leaves it.
saveAllAccounts(accounts) == [exists |-> TRUE, lines |-> RecordsOf(accounts)]

RECURSIVE LoadLines(_)
LoadLines(lines) ==
    IF lines = <<>> THEN <<>>
    ELSE LET r == fromRecord(Head(lines))
         IN  (IF Head(lines) # <<>> /\ r.ok THEN <<r.acct>> ELSE <<>>)
             \o LoadLines(Tail(lines))

\* AccountManager::loadAllAccounts; a file that cannot be opened gives the
\* empty list.
loadAllAccounts(f) == IF f.exists THEN LoadLines(f.lines) ELSE <<>>

\* The loop of findAccountIndex from index i (0-based) on.
RECURSIVE FindFrom(_, _, _)
FindFrom(l, accNo, i) ==
    IF i >= Len(l) THEN -1
    ELSE IF l[i + 1].accNumber = accNo THEN i
    ELSE FindFrom(l, accNo, i + 1)

\* Mutant of findAccountIndex: the last match, not the first.
findAccountIndex_LastMatch(l, accNo) ==
    LET hits == {i \in 1..Len(l) : l[i].accNumber = accNo}
    IN  IF hits = {} THEN -1
        ELSE (CHOOSE i \in hits : \A j \in hits : j <= i) - 1

\* AccountManager::findAccountIndex: 0-based index of the first match, or -1.
findAccountIndex(l, accNo) == FindFrom(l, accNo, 0)

(***************************************************************************)
(* Arguments of the calls.                                                 *)
(***************************************************************************)
\* The accounts that get created: two plain ones, and one whose owner name
\* holds the field separator (the constructor takes any string).
SampleAccounts ==
    {BankAccount(<<"A">>, 1, 3), BankAccount(<<"B">>, 2, 0),
     BankAccount(<<"C", "|">>, 1, 3)}

\* Account numbers asked for; 3 is never created.
AccNumbers == {1, 2, 3}

\* Transfer amounts, in thirds of 10^-6: none, two below the files'
\* resolution, and one the files can hold.
Amounts == {0, 1, 2, 3}

(***************************************************************************)
(* AccountManager::transferFunds, in the three steps that touch the files: *)
(* load and apply in memory, append to the journal, rewrite the accounts.  *)
(***************************************************************************)
\* Mutant of lines 220-231: an amount of 0 passes the first check.
transferFunds_apply_ZeroPasses(l, f, t, a) ==
    LET idxFrom == findAccountIndex(l, f)
        idxTo == findAccountIndex(l, t)
    IN  IF a < 0 THEN [thrown |-> "InvalidArgument", list |-> l]
        ELSE IF idxFrom = -1 \/ idxTo = -1
        THEN [thrown |-> "AccountNotFound", list |-> l]
        ELSE IF l[idxFrom + 1].balance < a
        THEN [thrown |-> "InsufficientFunds", list |-> l]
        ELSE LET w == updateBalance2(l[idxFrom + 1], a, TRUE)
                 l1 == [l EXCEPT ![idxFrom + 1] = w.acct]
                 d == updateBalance1(l1[idxTo + 1], a)
                 l2 == [l1 EXCEPT ![idxTo + 1] = d.acct]
             IN  IF w.thrown # "none" THEN [thrown |-> w.thrown, list |-> l1]
                 ELSE [thrown |-> d.thrown, list |-> l2]

\* Lines 220-231 on the loaded list l: the exception thrown, if any, and the
\* list as the two updateBalance calls leave it.
transferFunds_apply(l, f, t, a) ==
    LET idxFrom == findAccountIndex(l, f)
        idxTo == findAccountIndex(l, t)
    IN  IF a <= 0 THEN [thrown |-> "InvalidArgument", list |-> l]
        ELSE IF idxFrom = -1 \/ idxTo = -1
        THEN [thrown |-> "AccountNotFound", list |-> l]
        ELSE IF l[idxFrom + 1].balance < a
        THEN [thrown |-> "InsufficientFunds", list |-> l]
        ELSE LET w == updateBalance2(l[idxFrom + 1], a, TRUE)
                 l1 == [l EXCEPT ![idxFrom + 1] = w.acct]
                 d == updateBalance1(l1[idxTo + 1], a)
                 l2 == [l1 EXCEPT ![idxTo + 1] = d.acct]
             IN  IF w.thrown # "none" THEN [thrown |-> w.thrown, list |-> l1]
                 ELSE [thrown |-> d.thrown, list |-> l2]

\* The call returns or throws: its locals are gone, the caller has r.
Return(p, r) ==
    /\ pc' = [pc EXCEPT ![p] = "idle"]
    /\ result' = [result EXCEPT ![p] = r]
    /\ fromAcc' = [fromAcc EXCEPT ![p] = 0]
    /\ toAcc' = [toAcc EXCEPT ![p] = 0]
    /\ amount' = [amount EXCEPT ![p] = 0]
    /\ list' = [list EXCEPT ![p] = <<>>]
    /\ journalLen' = [journalLen EXCEPT ![p] = 0]

\* Lines 220-231, called with any arguments: validate, load, find, check
\* the balance, apply in memory.  l is what the load gives (it reads the
\* file only, so it is the same for every argument) and r what the checks
\* and the two updateBalance calls make of it.  No call begins once the
\* journal, with the lines of the calls under way, would pass MaxJournal.
transferFunds_begin(p) ==
    /\ pc[p] = "idle"
    /\ Len(transactionsFile.lines)
          + Cardinality({q \in Procs : pc[q] = "journal"}) < MaxJournal
    /\ \E l \in {loadAllAccounts(accountsFile)} :
       \E f \in AccNumbers, t \in AccNumbers, a \in Amounts :
       \E r \in {transferFunds_apply(l, f, t, a)} :
          IF r.thrown # "none" THEN Return(p, r.thrown)
          ELSE /\ pc' = [pc EXCEPT ![p] = "journal"]
               /\ fromAcc' = [fromAcc EXCEPT ![p] = f]
               /\ toAcc' = [toAcc EXCEPT ![p] = t]
               /\ amount' = [amount EXCEPT ![p] = a]
               /\ list' = [list EXCEPT ![p] = r.list]
               /\ result' = [result EXCEPT ![p] = "none"]
               /\ journalLen' =
                      [journalLen EXCEPT ![p] = Len(transactionsFile.lines)]
    /\ UNCHANGED <<accountsFile, transactionsFile, objectVars, loaded>>

\* Mutant of lines 234-238: the result of the open is not checked.
transferFunds_journal_OpenUnchecked(p, io) ==
    /\ pc[p] = "journal"
    /\ transactionsFile' =
           IF io = "open_fails" THEN transactionsFile
           ELSE IF io = "write_fails"
           THEN [transactionsFile EXCEPT !.exists = TRUE]
           ELSE AppendLine(transactionsFile,
                    Transaction_toRecord(fromAcc[p], toAcc[p],
                                         amount[p], TransferNote))
    /\ pc' = [pc EXCEPT ![p] = "save"]
    /\ UNCHANGED <<fromAcc, toAcc, amount, list, result, journalLen>>
    /\ UNCHANGED <<accountsFile, objectVars, loaded>>

\* Lines 234-238: open the journal for append, write the record, close.
\* Only the open is checked; io is what the file system does.
transferFunds_journal(p, io) ==
    /\ pc[p] = "journal"
    /\ IF io = "open_fails"
       THEN /\ Return(p, "IOFailure")
            /\ UNCHANGED transactionsFile
       ELSE /\ transactionsFile' =
                   IF io = "write_fails"
                   THEN [transactionsFile EXCEPT !.exists = TRUE]
                   ELSE AppendLine(transactionsFile,
                            Transaction_toRecord(fromAcc[p], toAcc[p],
                                                 amount[p], TransferNote))
            /\ pc' = [pc EXCEPT ![p] = "save"]
            /\ UNCHANGED <<fromAcc, toAcc, amount, list, result, journalLen>>
    /\ UNCHANGED <<accountsFile, objectVars, loaded>>

\* Lines 241-242: saveAllAccounts(list); return true.
transferFunds_save(p, io) ==
    /\ pc[p] = "save"
    /\ IF io = "open_fails"
       THEN /\ Return(p, "IOFailure")
            /\ UNCHANGED accountsFile
       ELSE /\ accountsFile' = saveAllAccounts(list[p])
            /\ Return(p, "true")
    /\ UNCHANGED <<transactionsFile, objectVars, loaded>>

\* AccountManager::createAccount: one record appended to the accounts file.
createAccount(p, acc, io) ==
    /\ pc[p] = "idle"
    /\ Len(accountsFile.lines) < MaxLines
    /\ accountsFile' =
           IF io = "open_fails" THEN accountsFile
           ELSE AppendLine(accountsFile, BankAccount_toRecord(acc))
    /\ result' = [result EXCEPT ![p] = IF io = "open_fails" THEN "IOFailure"
                                       ELSE "void"]
    /\ UNCHANGED <<transactionsFile, pc, fromAcc, toAcc, amount, list,
                   journalLen, objectVars, loaded>>

\* main, lines 316-317, the body of the loop: an entry that has a1's account
\* number becomes a1, and then, if it has a2's account number, a2.
ReplaceEntry(acc, a1, a2) ==
    LET first == IF acc.accNumber = a1.accNumber THEN a1 ELSE acc
    IN  IF first.accNumber = a2.accNumber THEN a2 ELSE first

\* main, lines 313-319, for any two accounts a1 and a2: load all, replace
\* the entries of a1 and a2, save all.
RewriteAccounts(p) ==
    /\ pc[p] = "idle"
    /\ accountsFile.exists
    /\ \E all \in {loadAllAccounts(accountsFile)} :
       \E a1 \in SampleAccounts, a2 \in SampleAccounts :
          accountsFile' = saveAllAccounts(
              [i \in 1..Len(all) |-> ReplaceEntry(all[i], a1, a2)])
    /\ result' = [result EXCEPT ![p] = "void"]
    /\ UNCHANGED <<transactionsFile, pc, fromAcc, toAcc, amount, list,
                   journalLen, objectVars, loaded>>

(***************************************************************************)
(* BankAccount objects in memory: the deposit and withdraw entry points of *)
(* bank_full_system.cpp ("full") and of bank.cpp ("bank").  Each gives the *)
(* exception thrown, if any, and the object the caller is left with.       *)
(***************************************************************************)
Thrown(kind, a) == [thrown |-> kind, acct |-> a]
Done(a, bal) == [thrown |-> "none", acct |-> [a EXCEPT !.balance = bal]]

\* bank_full_system.cpp operator+; the caller assigns the returned object.
full_operator_plus(a, amt) ==
    IF amt < 0 THEN Thrown("InvalidArgument", a)
    ELSE Done(a, a.balance + amt)

\* bank_full_system.cpp operator-.
full_operator_minus(a, amt) ==
    IF amt < 0 THEN Thrown("InvalidArgument", a)
    ELSE IF a.balance < amt THEN Thrown("InsufficientFunds", a)
    ELSE Done(a, a.balance - amt)

\* bank.cpp operator+.
bank_operator_plus(a, amt) ==
    IF amt < 0 THEN Thrown("InvalidArgument", a)
    ELSE Done(a, a.balance + amt)

\* bank.cpp operator-.
bank_operator_minus(a, amt) ==
    IF amt < 0 THEN Thrown("InvalidArgument", a)
    ELSE IF amt > a.balance THEN Thrown("InsufficientFunds", a)
    ELSE Done(a, a.balance - amt)

\* bank.cpp update(double).
bank_update1(a, amt) == Done(a, a.balance + amt)

\* bank.cpp update(double, bool).
bank_update2(a, amt, withdraw) ==
    IF withdraw
    THEN IF amt > a.balance THEN Thrown("InsufficientFunds", a)
         ELSE Done(a, a.balance - amt)
    ELSE Done(a, a.balance + amt)

\* What op does to object a of implementation impl.
Apply(impl, op, a, amt) ==
    CASE op = "operator+" ->
             IF impl = "full" THEN full_operator_plus(a, amt)
             ELSE bank_operator_plus(a, amt)
      [] op = "operator-" ->
             IF impl = "full" THEN full_operator_minus(a, amt)
             ELSE bank_operator_minus(a, amt)
      [] op = "update(amt)" ->
             IF impl = "full" THEN updateBalance1(a, amt)
             ELSE bank_update1(a, amt)
      [] op = "update(amt,true)" ->
             IF impl = "full" THEN updateBalance2(a, amt, TRUE)
             ELSE bank_update2(a, amt, TRUE)
      [] op = "update(amt,false)" ->
             IF impl = "full" THEN updateBalance2(a, amt, FALSE)
             ELSE bank_update2(a, amt, FALSE)

DepositOps == {"operator+", "update(amt)", "update(amt,false)"}
WithdrawOps == {"operator-", "update(amt,true)"}

\* Amounts, in thirds of 10^-6, passed to the entry points.
ObjectAmounts == (-MaxBalance)..MaxBalance

\* A deposit or withdraw entry point is called on the object.
EntryPoint(op, amt) ==
    /\ account.impl # "none"
    /\ LET r == Apply(account.impl, op, account.acct, amt)
       IN  /\ r.acct.balance \in (-2 * MaxBalance)..(2 * MaxBalance)
           /\ account' = [account EXCEPT !.acct = r.acct]
           /\ lastOp' = [op |-> op, amt |-> amt,
                         before |-> account.acct.balance,
                         outcome |-> IF r.thrown = "none" THEN "ok"
                                     ELSE r.thrown]
    /\ UNCHANGED <<ledgerVars, loaded>>

\* getBalanceRef() += d, as both main functions do.
getBalanceRef_add(d) ==
    /\ account.impl # "none"
    /\ account.acct.balance + d \in (-2 * MaxBalance)..(2 * MaxBalance)
    /\ account' = [account EXCEPT !.acct.balance = @ + d]
    /\ lastOp' = [op |-> "getBalanceRef", amt |-> d,
                  before |-> account.acct.balance, outcome |-> "ok"]
    /\ UNCHANGED <<ledgerVars, loaded>>

(***************************************************************************)
(* Loading the accounts file: loadAllAccounts (bank_full_system.cpp) and   *)
(* loadAll (bank.cpp).                                                     *)
(***************************************************************************)
\* bank.cpp loadAll: lines of more than two characters are deserialized
\* (deserialize is fromRecord); an exception of stoi or stod leaves the call.
RECURSIVE BankLoadLines(_)
BankLoadLines(lines) ==
    IF lines = <<>> THEN [ok |-> TRUE, list |-> <<>>]
    ELSE LET r == fromRecord(Head(lines))
             rest == BankLoadLines(Tail(lines))
         IN  IF Len(Head(lines)) > 2
             THEN IF ~r.ok THEN [ok |-> FALSE, list |-> <<>>]
                  ELSE [ok |-> rest.ok,
                        list |-> IF rest.ok THEN <<r.acct>> \o rest.list
                                 ELSE <<>>]
             ELSE rest

bank_loadAll(f) ==
    IF f.exists THEN BankLoadLines(f.lines) ELSE [ok |-> TRUE, list |-> <<>>]

Load_full ==
    /\ loaded.by = "none"
    /\ loaded' = [by |-> "loadAllAccounts", outcome |-> "ok",
                  list |-> loadAllAccounts(accountsFile)]
    /\ UNCHANGED <<ledgerVars, objectVars>>

Load_bank ==
    /\ loaded.by = "none"
    /\ LET r == bank_loadAll(accountsFile)
       IN  loaded' = [by |-> "loadAll",
                      outcome |-> IF r.ok THEN "ok" ELSE "exception",
                      list |-> r.list]
    /\ UNCHANGED <<ledgerVars, objectVars>>

(***************************************************************************)
(* Inputs.                                                                 *)
(***************************************************************************)
NoObject == [impl |-> "none", acct |-> BankAccount(<<>>, 0, 0)]
NoOp == [op |-> "none", amt |-> 0, before |-> 0, outcome |-> "none"]
NotLoaded == [by |-> "none", outcome |-> "none", list |-> <<>>]

LedgerInit ==
    /\ transactionsFile = NoFile
    /\ pc = [p \in Procs |-> "idle"]
    /\ fromAcc = [p \in Procs |-> 0]
    /\ toAcc = [p \in Procs |-> 0]
    /\ amount = [p \in Procs |-> 0]
    /\ list = [p \in Procs |-> <<>>]
    /\ result = [p \in Procs |-> "none"]
    /\ journalLen = [p \in Procs |-> 0]

Init ==
    /\ accountsFile = NoFile
    /\ LedgerInit
    /\ account = NoObject
    /\ lastOp = NoOp
    /\ loaded = NotLoaded

\* The characters of the lines that get loaded.
Alphabet == {"a", "1", "|", "."}

\* Lines of up to MaxLineLen characters, no run of more than three digits.
Lines ==
    {l \in UNION {[1..k -> Alphabet] : k \in 0..MaxLineLen} :
        \A i \in 1..(Len(l) - 3) : \E j \in i..(i + 3) : ~IsDigit(l[j])}

GoodLine == <<"a", "|", "1", "|", "1">>

\* Accounts files to load: none, or one line, alone or beside a good one.
LoadFiles ==
    {NoFile}
    \cup {[exists |-> TRUE, lines |-> <<l>>] : l \in Lines}
    \cup {[exists |-> TRUE, lines |-> <<l, GoodLine>>] : l \in Lines}
    \cup {[exists |-> TRUE, lines |-> <<GoodLine, l>>] : l \in Lines}

\* One process, no file system failure.
Next ==
    \/ \E acc \in SampleAccounts : createAccount(Main, acc, "ok")
    \/ RewriteAccounts(Main)
    \/ transferFunds_begin(Main)
    \/ transferFunds_journal(Main, "ok")
    \/ transferFunds_save(Main, "ok")

Spec == Init /\ [][Next]_vars

\* One process; opening a file for writing may fail, and so may the write
\* to the journal.
NextIO ==
    \/ \E acc \in SampleAccounts, io \in {"ok", "open_fails"} :
           createAccount(Main, acc, io)
    \/ transferFunds_begin(Main)
    \/ \E io \in {"ok", "open_fails", "write_fails"} :
           transferFunds_journal(Main, io)
    \/ \E io \in {"ok", "open_fails"} : transferFunds_save(Main, io)

SpecIO == Init /\ [][NextIO]_vars

\* A BankAccount object of either program and the calls made on it.
InitObject ==
    /\ accountsFile = NoFile
    /\ LedgerInit
    /\ account \in {[impl |-> i, acct |-> BankAccount(<<"A">>, 1, b)] :
                       i \in {"full", "bank"}, b \in 0..MaxBalance}
    /\ lastOp = NoOp
    /\ loaded = NotLoaded

NextObject ==
    \/ \E op \in DepositOps \cup WithdrawOps, amt \in ObjectAmounts :
           EntryPoint(op, amt)
    \/ \E d \in ObjectAmounts : getBalanceRef_add(d)

SpecObject == InitObject /\ [][NextObject]_vars

\* One load of an accounts file by either program.
InitLoad ==
    /\ accountsFile \in LoadFiles
    /\ LedgerInit
    /\ account = NoObject
    /\ lastOp = NoOp
    /\ loaded = NotLoaded

NextLoad == Load_full \/ Load_bank

SpecLoad == InitLoad /\ [][NextLoad]_vars

\* The store after two createAccount calls, as main makes them.
RaceStore ==
    AppendLine(AppendLine(NoFile,
                          BankAccount_toRecord(BankAccount(<<"A">>, 1, 6))),
               BankAccount_toRecord(BankAccount(<<"B">>, 2, 3)))

\* Two processes, each with its own AccountManager, on the same two files.
InitRace ==
    /\ accountsFile = RaceStore
    /\ LedgerInit
    /\ account = NoObject
    /\ lastOp = NoOp
    /\ loaded = NotLoaded

\* Either process takes the next step of its transferFunds call: nothing
\* in the code locks the files or orders the steps of different processes.
NextRace ==
    \/ \E p \in Procs : transferFunds_begin(p)
    \/ \E p \in Procs : transferFunds_journal(p, "ok")
    \/ \E p \in Procs : transferFunds_save(p, "ok")

SpecRace == InitRace /\ [][NextRace]_vars

(***************************************************************************)
(* Vocabulary of the properties.                                           *)
(***************************************************************************)
\* The account records of the store, in file order.
Records(f) == loadAllAccounts(f)

Journal == transactionsFile.lines

RECURSIVE SumBalances(_)
SumBalances(l) ==
    IF l = <<>> THEN 0 ELSE Head(l).balance + SumBalances(Tail(l))

Present(l, id) == \E i \in 1..Len(l) : l[i].accNumber = id

\* Position of the first record with this id (first match wins).
FirstIndex(l, id) ==
    CHOOSE i \in 1..Len(l) :
        /\ l[i].accNumber = id
        /\ \A j \in 1..(i - 1) : l[j].accNumber # id

BalanceOf(l, id) == l[FirstIndex(l, id)].balance

\* The step in which process p's transferFunds call returns true.
Succeeds(p) == pc[p] = "save" /\ pc'[p] = "idle" /\ result'[p] = "true"

\* The step in which process p's transferFunds call is rejected.
Rejections == {"InvalidArgument", "AccountNotFound", "InsufficientFunds"}
Rejected(p) == pc[p] = "idle" /\ pc'[p] = "idle" /\ result'[p] \in Rejections

\* The store is not written between the load of a call and its rewrite.
StoreHeldDuringCall(p) ==
    pc[p] # "idle" /\ pc'[p] # "idle" => accountsFile' = accountsFile

MustReject(l, f, t, a) ==
    \/ a <= 0
    \/ ~Present(l, f)
    \/ ~Present(l, t)
    \/ BalanceOf(l, f) < a

RejectsWhatItMust ==
    LET l == Records(accountsFile)
    IN  \A f \in AccNumbers, t \in AccNumbers, a \in Amounts :
           MustReject(l, f, t, a) =>
               transferFunds_apply(l, f, t, a).thrown \in Rejections

\* C2: every call that has to be rejected is rejected, and the step that
\* rejects a call changes neither the accounts file nor the journal.
C2_AtomicOnFailure ==
    /\ []RejectsWhatItMust
    /\ [][\A p \in Procs :
             Rejected(p) => /\ accountsFile' = accountsFile
                            /\ transactionsFile' = transactionsFile]_vars

\* A call was rejected for insufficient funds with records in the store and
\* an entry in the journal.
C2_Witness ==
    /\ result[Main] = "InsufficientFunds"
    /\ Records(accountsFile) # <<>>
    /\ Journal # <<>>

(***************************************************************************)
(* C3. Successful transfer effect.                                         *)
(***************************************************************************)
MustAccept(l, f, t, a) ==
    /\ Present(l, f)
    /\ Present(l, t)
    /\ f # t
    /\ a > 0
    /\ BalanceOf(l, f) >= a

\* With from and to present and distinct and balance(from) >= amount > 0,
\* the call is not rejected.
AcceptsWhatItMust ==
    LET l == Records(accountsFile)
    IN  \A f \in AccNumbers, t \in AccNumbers, a \in Amounts :
           MustAccept(l, f, t, a) =>
               transferFunds_apply(l, f, t, a).thrown = "none"

\* Once past the checks, the call returns true.
ThenSucceeds ==
    \A p \in Procs :
       /\ pc[p] = "journal" => pc'[p] \in {"journal", "save"}
       /\ pc[p] = "save" /\ pc'[p] = "idle" => result'[p] = "true"

\* The value with six decimals nearest to x, which is what a file shows.
SixDecimals(x) == 3 * RoundMicro(x)

\* C3 as stated: the store afterwards shows balance(from) decreased by
\* exactly amount and balance(to) increased by exactly amount.
C3_ExactEffect ==
    /\ []AcceptsWhatItMust
    /\ [][/\ ThenSucceeds
          /\ \A p \in Procs :
             Succeeds(p) /\ fromAcc[p] # toAcc[p] =>
                LET before == Records(accountsFile)
                    after == Records(accountsFile')
                IN  /\ BalanceOf(after, fromAcc[p])
                         = BalanceOf(before, fromAcc[p]) - amount[p]
                    /\ BalanceOf(after, toAcc[p])
                         = BalanceOf(before, toAcc[p]) + amount[p]]_vars

\* C3, amended: with from and to present and distinct and balance(from) >=
\* amount > 0 the call returns true, and the store afterwards shows
\* balance(from) - amount and balance(to) + amount as to_string writes them,
\* rounded to six decimals: a change of exactly amount when amount has no
\* more than six decimals.
C3_RoundedEffect ==
    /\ []AcceptsWhatItMust
    /\ [][/\ ThenSucceeds
          /\ \A p \in Procs :
             Succeeds(p) /\ fromAcc[p] # toAcc[p] =>
                LET before == Records(accountsFile)
                    after == Records(accountsFile')
                    bf == BalanceOf(before, fromAcc[p])
                    bt == BalanceOf(before, toAcc[p])
                IN  /\ BalanceOf(after, fromAcc[p]) = SixDecimals(bf - amount[p])
                    /\ BalanceOf(after, toAcc[p]) = SixDecimals(bt + amount[p])
                    /\ amount[p] % 3 = 0 =>
                          /\ BalanceOf(after, fromAcc[p]) = bf - amount[p]
                          /\ BalanceOf(after, toAcc[p]) = bt + amount[p]]_vars

\* A transfer of a whole 10^-6 from account 1 to account 2 has succeeded
\* and the store shows it.
C3_Witness ==
    /\ result[Main] = "true"
    /\ Journal # <<>>
    /\ Journal[Len(Journal)] = Transaction_toRecord(1, 2, 3, TransferNote)
    /\ Present(Records(accountsFile), 2)
    /\ BalanceOf(Records(accountsFile), 2) = 3

(***************************************************************************)
(* C4. The journal is append-only, one record per success.                 *)
(***************************************************************************)
IsPrefix(s, t) == Len(s) <= Len(t) /\ SubSeq(t, 1, Len(s)) = s

\* The four fields of a journal line from|to|amount|note.
JournalFields(line) ==
    LET p1 == find(line, "|", 0)
        p2 == find(line, "|", p1 + 1)
        p3 == find(line, "|", p2 + 1)
    IN  [from |-> stoi(substr(line, 0, p1)),
         to |-> stoi(substr(line, p1 + 1, p2 - (p1 + 1))),
         amount |-> stod(substr(line, p2 + 1, p3 - (p2 + 1))),
         note |-> substr(line, p3 + 1, npos)]

\* Every step keeps the journal as a prefix; the journal grows only in the
\* journal step of a call, by one line; a call that is rejected adds none.
AppendOnly ==
    /\ IsPrefix(Journal, Journal')
    /\ Journal' # Journal =>
          /\ Len(Journal') = Len(Journal) + 1
          /\ \E p \in Procs : pc[p] = "journal" /\ pc'[p] = "save"
    /\ \A p \in Procs : Rejected(p) => Journal' = Journal

C5_NonNegativeBalance ==
    lastOp.op \in DepositOps \cup WithdrawOps /\ lastOp.before >= 0 =>
        account.acct.balance >= 0

(***************************************************************************)
(* C6. Identifier uniqueness: no two records of the accounts file have the *)
(* same account id.                                                        *)
(***************************************************************************)
\* C6: in every reachable state the records of the accounts file have
\* pairwise different account ids.
C6_UniqueIds ==
    LET l == Records(accountsFile)
    IN  \A i \in 1..Len(l), j \in 1..Len(l) :
           i # j => l[i].accNumber # l[j].accNumber

(***************************************************************************)
(* C7. Rejection contract: every deposit entry point fails with            *)
(* InvalidArgument on amount < 0; every withdraw entry point fails with    *)
(* InvalidArgument on amount < 0 and with InsufficientFunds on amount >    *)
(* balance; in each failing case the balance is unchanged.                 *)
(***************************************************************************)
\* C7: the last entry point called with amount < 0 has thrown
\* InvalidArgument, a withdraw entry point called with amount > balance has
\* thrown InsufficientFunds, and either left the balance as it was.
C7_RejectionContract ==
    /\ lastOp.op \in DepositOps \cup WithdrawOps /\ lastOp.amt < 0 =>
          /\ lastOp.outcome = "InvalidArgument"
          /\ account.acct.balance = lastOp.before
    /\ lastOp.op \in WithdrawOps /\ lastOp.amt >= 0
                                 /\ lastOp.amt > lastOp.before =>
          /\ lastOp.outcome = "InsufficientFunds"
          /\ account.acct.balance = lastOp.before

(***************************************************************************)
(* C8. Permissive load: the load returns, in file order, exactly one       *)
(* record per well-formed line owner|id|balance; a line that lacks a '|'   *)
(* or has a non-numeric id or balance is skipped without an error; an      *)
(* absent file gives the empty sequence.                                   *)
(***************************************************************************)
AllDigits(s) == s # <<>> /\ \A i \in 1..Len(s) : IsDigit(s[i])

\* An integer numeral: digits, with an optional sign before them.
IsIntegerText(s) ==
    \/ AllDigits(s)
    \/ Len(s) > 1 /\ s[1] = "-" /\ AllDigits(Tail(s))

\* A decimal numeral: an optional sign, digits, at most one '.' among them.
IsDecimalText(s) ==
    LET u == IF s # <<>> /\ s[1] = "-" THEN Tail(s) ELSE s
        dots == {i \in 1..Len(u) : u[i] = "."}
    IN  /\ \E i \in 1..Len(u) : IsDigit(u[i])
        /\ \A i \in 1..Len(u) : IsDigit(u[i]) \/ u[i] = "."
        /\ Cardinality(dots) <= 1

\* The three fields of a line with two separators, split at the first two.
Pipes(line) == {i \in 1..Len(line) : line[i] = "|"}

WellFormed(line) ==
    /\ Cardinality(Pipes(line)) = 2
    /\ LET a == CHOOSE i \in Pipes(line) : \A j \in Pipes(line) : i <= j
           b == CHOOSE i \in Pipes(line) : \A j \in Pipes(line) : j <= i
       IN  /\ IsIntegerText(SubSeq(line, a + 1, b - 1))
           /\ IsDecimalText(SubSeq(line, b + 1, Len(line)))

RecordOf(line) ==
    LET a == CHOOSE i \in Pipes(line) : \A j \in Pipes(line) : i <= j
        b == CHOOSE i \in Pipes(line) : \A j \in Pipes(line) : j <= i
    IN  BankAccount(SubSeq(line, 1, a - 1),
                    stoi(SubSeq(line, a + 1, b - 1)).val,
                    stod(SubSeq(line, b + 1, Len(line))).val)

RECURSIVE WellFormedRecords(_)
WellFormedRecords(lines) ==
    IF lines = <<>> THEN <<>>
    ELSE (IF WellFormed(Head(lines)) THEN <<RecordOf(Head(lines))>>
          ELSE <<>>) \o WellFormedRecords(Tail(lines))

\* C8: a load has returned without an exception, and what it returned is
\* the records of the well-formed lines of the file, in file order; nothing
\* for an absent file.
C8_PermissiveLoad ==
    loaded.by # "none" =>
       /\ loaded.outcome = "ok"
       /\ loaded.list = IF accountsFile.exists
                        THEN WellFormedRecords(accountsFile.lines)
                        ELSE <<>>

(***************************************************************************)
(* C9. Transfer step ordering, with file system failures.                  *)
(***************************************************************************)
\* The step in which process p's call fails: it throws.
Fails(p) ==
    /\ pc'[p] = "idle"
    /\ result'[p] \in Rejections \cup {"IOFailure"}
    /\ result'[p] # result[p] \/ pc[p] # "idle"

\* validate and apply, then journal, then store: the steps of a call come
\* in this order, the store is written by a call only in its last step, and
\* a call that fails leaves the store as it was.
InOrder(p) ==
    /\ pc'[p] = "journal" => pc[p] \in {"idle", "journal"}
    /\ pc'[p] = "save" => pc[p] \in {"journal", "save"}
    /\ pc[p] = "save" => pc'[p] \in {"save", "idle"}
    /\ pc[p] = "journal" => accountsFile' = accountsFile
    /\ Fails(p) => accountsFile' = accountsFile

\* The last line of the journal is the entry of p's call.
HoldsEntry(p) ==
    /\ Len(Journal) = journalLen[p] + 1
    /\ LET r == JournalFields(Journal[Len(Journal)])
       IN  /\ r.from = [ok |-> TRUE, val |-> fromAcc[p]]
           /\ r.to = [ok |-> TRUE, val |-> toAcc[p]]
           /\ r.amount = [ok |-> TRUE, val |-> SixDecimals(amount[p])]
           /\ r.note = TransferNote

\* C9 as stated: whenever a call rewrites the store, the journal holds that
\* call's entry, also after a failure to open or to write the journal.
C9_StoreImpliesJournal ==
    [][\A p \in Procs :
          /\ InOrder(p)
          /\ Succeeds(p) => HoldsEntry(p)]_vars

\* C9, amended: the steps come in the order validate, apply in memory,
\* journal, store; the store is never rewritten before the journal step,
\* and any failure before the rewrite, a failure to open the journal
\* included, leaves the store unchanged.  The journal step either appends
\* the entry or, when the write fails (which the code does not check),
\* appends nothing; so the store of a call that returns true is rewritten
\* after the journal was opened, and the journal then holds the call's
\* entry unless its write failed.
C9_JournalStepBeforeStore ==
    [][\A p \in Procs :
          /\ InOrder(p)
          /\ pc[p] = "journal" /\ pc'[p] = "save" =>
                \/ Journal' = Journal
                \/ Journal' = Append(Journal,
                       Transaction_toRecord(fromAcc[p], toAcc[p], amount[p],
                                            TransferNote))
          /\ Succeeds(p) =>
                /\ transactionsFile.exists
                /\ Journal' = Journal
                /\ HoldsEntry(p) \/ Len(Journal) = journalLen[p]]_vars

\* A call has returned true and the store shows its transfer (account 2,
\* created with 0, holds 0.000001), yet the journal is empty: the write of
\* the entry had failed.
C9_Witness ==
    /\ result[Main] = "true"
    /\ transactionsFile.exists
    /\ Journal = <<>>
    /\ Present(Records(accountsFile), 2)
    /\ BalanceOf(Records(accountsFile), 2) = 3

(***************************************************************************)
(* C10. Transfer frame condition with first-match lookup.                  *)
(***************************************************************************)
Loads(line) == line # <<>> /\ fromRecord(line).ok

\* The lines (by position) that hold the first record with id from and the
\* first record with id to.
FirstLine(lines, id) ==
    CHOOSE i \in 1..Len(lines) :
        /\ Loads(lines[i]) /\ fromRecord(lines[i]).acct.accNumber = id
        /\ \A j \in 1..(i - 1) :
              ~(Loads(lines[j]) /\ fromRecord(lines[j]).acct.accNumber = id)

\* C10 as stated: every line of the store other than those two is there
\* after the call, the same and in the same position; the number of lines
\* is unchanged; the two records keep their owner and id.
C10_FrameOfLines ==
    [][\A p \in Procs :
          Succeeds(p) =>
             LET before == accountsFile.lines
                 after == accountsFile'.lines
                 hit == {FirstLine(before, fromAcc[p]),
                         FirstLine(before, toAcc[p])}
             IN  /\ Len(after) = Len(before)
                 /\ \A i \in 1..Len(before) :
                       IF i \in hit
                       THEN /\ fromRecord(after[i]).acct.name
                                 = fromRecord(before[i]).acct.name
                            /\ fromRecord(after[i]).acct.accNumber
                                 = fromRecord(before[i]).acct.accNumber
                       ELSE after[i] = before[i]]_vars

\* C10, amended: a successful call changes only the balance of the first
\* record with id from and of the first record with id to; every other
\* record that loadAllAccounts reads from the store before the call (later
\* records with a duplicate id included) is there after the call with the
\* same owner, id, balance and position among the records; the number of
\* records is unchanged and the two records keep owner and id.  Lines that
\* loadAllAccounts skips (empty or malformed ones) are not written back: the
\* store afterwards holds the records' lines and nothing else.
C10_FrameOfRecords ==
    [][\A p \in Procs :
          Succeeds(p) =>
             LET before == Records(accountsFile)
                 after == Records(accountsFile')
                 hit == {FirstIndex(before, fromAcc[p]),
                         FirstIndex(before, toAcc[p])}
             IN  /\ Len(after) = Len(before)
                 /\ Len(accountsFile'.lines) = Len(before)
                 /\ \A i \in 1..Len(before) :
                       IF i \in hit
                       THEN /\ after[i].name = before[i].name
                            /\ after[i].accNumber = before[i].accNumber
                       ELSE /\ after[i] = before[i]
                            /\ accountsFile'.lines[i]
                                 = BankAccount_toRecord(before[i])]_vars

\* A transfer of 0.000001 from account 1 to account 2 has succeeded on a
\* store whose third record has id 1 too: the first record gave the money,
\* the third still has its own.
C10_Witness ==
    /\ result[Main] = "true"
    /\ Journal # <<>>
    /\ Journal[Len(Journal)] = Transaction_toRecord(1, 2, 3, TransferNote)
    /\ LET l == Records(accountsFile)
       IN  /\ Len(l) = 3
           /\ l[1].accNumber = 1 /\ l[1].balance = 0
           /\ l[2].accNumber = 2
           /\ l[3].accNumber = 1 /\ l[3].balance = 3

(***************************************************************************)
(* C11. Unlocked concurrent transfers race.                                *)
(***************************************************************************)
\* Process p is between the load and the rewrite of a call.
InCall(p) == pc[p] \in {"journal", "save"}

\* The store is still what p's call loaded: the checks and updates of p's
\* call, made on the store as it is now, give the list p holds.
Fresh(p) ==
    transferFunds_apply(Records(accountsFile), fromAcc[p], toAcc[p],
                        amount[p]) = [thrown |-> "none", list |-> list[p]]

\* p's call holds a list made from a store that has been rewritten since.
Stale(p) == InCall(p) /\ ~Fresh(p)

\* Stale(p) of the state a step leads to.
StaleAfter(p) ==
    /\ pc'[p] \in {"journal", "save"}
    /\ transferFunds_apply(Records(accountsFile'), fromAcc'[p], toAcc'[p],
                           amount'[p]) # [thrown |-> "none", list |-> list'[p]]

\* The store a whole call transferFunds(f, t, a) leaves when it runs alone.
SerialStep(store, f, t, a) ==
    LET r == transferFunds_apply(Records(store), f, t, a)
    IN  IF r.thrown = "none" THEN saveAllAccounts(r.list) ELSE store

\* The store that the calls of the two journal lines leave when the call of
\* line i runs first and the call of line j after it, each alone.
SerialOrder(i, j) ==
    LET c1 == JournalFields(Journal[i])
        c2 == JournalFields(Journal[j])
    IN  SerialStep(SerialStep(RaceStore, c1.from.val, c1.to.val,
                              c1.amount.val),
                   c2.from.val, c2.to.val, c2.amount.val)

====
